---- MODULE Spec2Model ----
(***************************************************************************)
(* Model of restic-exporter's streaming pipeline: the generator's          *)
(* get_piped_stats (restic_exporter.py), the attrs record classes it       *)
(* builds and the JSON decoders it calls.                                  *)
(*                                                                         *)
(* A Python value is a record [t, n, s]: t is the Python type, n the       *)
(* number (floats are kept in tenths, so n = 25 with t = "float" is 2.5),  *)
(* s the text of a str.  inf and nan are the two non-finite floats that    *)
(* json.loads produces (1e999, NaN).                                       *)
(***************************************************************************)
EXTENDS Integers, Sequences, FiniteSets, TLC

VARIABLES
    key,                          \* the shared ResticSnapshotKeys object
    backup_status_last_update,    \* ResticStatsGenerator._backup_status_last_update
    backup_status_window_seconds, \* ResticStatsGenerator._backup_status_window_seconds
    now,                          \* reading of datetime.datetime.now()
    result,                       \* outcome of the last get_piped_stats call
    call,                         \* the call that has just returned: its line and
                                  \* the state it started in
    undecoded_at,                 \* when the last call was a status line that reached
                                  \* the decoder and gave no record: its clock reading
    summary_sid,                  \* snapshot id of the last summary that was decoded
    emitted_at,                   \* clock reading at which a status line last gave a
                                  \* record, while the clock has not been set back
    pc,                           \* where the batch path is: "off" when the program
                                  \* reads a pipe, else "start", "loop", "done", "raised"
    generator_last,               \* ResticStatsGenerator._last
    runs,                         \* the subprocess.run calls made so far, in order,
                                  \* each with what _run_command returned
    commands,                     \* number of executor methods called so far
    snapshots,                    \* the list get_snapshot_stats works on
    cursor,                       \* iterations of its loop completed
    warned,                       \* "No valid snapshots found" was logged
    batch_result,                 \* what the batch method returned or raised
    client,                       \* ExporterInfluxDB._client is set (start() was called)
    sink,                         \* the last ExporterInfluxDB.export call: its batch,
                                  \* the write_points calls it made, what it logged
    argv,                         \* the command line, as parse_args reads it
    stdin,                        \* the lines of standard input
    main_pc,                      \* where the __main__ block is
    exit_status,                  \* status the process exited with, None while it runs
    usage,                        \* the usage message has been printed
    passed,                       \* the lines passed to get_piped_stats, in order
    returned,                     \* the lists get_piped_stats returned, concatenated
    exported,                     \* per exporter: the elements passed to its export
    written                       \* per exporter: the points it has submitted

piped_vars == <<key, backup_status_last_update, backup_status_window_seconds, now,
                result, call, undecoded_at, summary_sid, emitted_at>>

batch_vars == <<pc, generator_last, runs, commands, snapshots, cursor, warned, batch_result>>

sink_vars == <<client, sink>>

main_vars == <<argv, stdin, main_pc, exit_status, usage, passed, returned, exported, written>>

vars == <<piped_vars, batch_vars, sink_vars, main_vars>>

\* Bounds of the model.
MaxTime == 2
MaxWindow == 2
MaxSnapshots == 2
MaxBatch == 2
MaxLines == 2

-----------------------------------------------------------------------------
\* Python values.

PyNone == [t |-> "None", n |-> 0, s |-> ""]
PyInt(i) == [t |-> "int", n |-> i, s |-> ""]
PyFloat(tenths) == [t |-> "float", n |-> tenths, s |-> ""]
PyInf == [t |-> "inf", n |-> 0, s |-> ""]
PyNaN == [t |-> "nan", n |-> 0, s |-> ""]
PyStr(str) == [t |-> "str", n |-> 0, s |-> str]
PyBool(b) == [t |-> "bool", n |-> IF b THEN 1 ELSE 0, s |-> ""]
PyList(len) == [t |-> "list", n |-> len, s |-> ""]

\* Outcome of evaluating an expression: a value, or the exception it raises.
Ok(v) == [e |-> "", v |-> v]
Raise(exc) == [e |-> exc, v |-> PyNone]

\* Truncation toward zero of a float kept in tenths: what int(float) does.
Trunc(tenths) == IF tenths >= 0 THEN tenths \div 10 ELSE -((-tenths) \div 10)

\* int(str): the integer literals among the strings of the model.
IntLiteral(str) ==
    CASE str = "7" -> Ok(PyInt(7))
      [] str = "-3" -> Ok(PyInt(-3))
      [] OTHER -> Raise("ValueError")

\* float(str): the float literals among the strings of the model.
FloatLiteral(str) ==
    CASE str = "7" -> Ok(PyFloat(70))
      [] str = "-3" -> Ok(PyFloat(-30))
      [] str = "0.5" -> Ok(PyFloat(5))
      [] str = "nan" -> Ok(PyNaN)
      [] OTHER -> Raise("ValueError")

\* The builtin int().
int(v) ==
    CASE v.t = "int" -> Ok(v)
      [] v.t = "bool" -> Ok(PyInt(v.n))
      [] v.t = "float" -> Ok(PyInt(Trunc(v.n)))
      [] v.t = "inf" -> Raise("OverflowError")
      [] v.t = "nan" -> Raise("ValueError")
      [] v.t = "str" -> IntLiteral(v.s)
      [] OTHER -> Raise("TypeError")

\* The builtin float().
float(v) ==
    CASE v.t = "int" -> Ok(PyFloat(10 * v.n))
      [] v.t = "bool" -> Ok(PyFloat(10 * v.n))
      [] v.t \in {"float", "inf", "nan"} -> Ok(v)
      [] v.t = "str" -> FloatLiteral(v.s)
      [] OTHER -> Raise("TypeError")

convert_type_or_none(cast_type, v) ==
    IF v # PyNone
    THEN (CASE cast_type = "int" -> int(v) [] cast_type = "float" -> float(v))
    ELSE Ok(v)

convert_int_or_none(v) == convert_type_or_none("int", v)

convert_float_or_none(v) == convert_type_or_none("float", v)

\* val < 0 for a converted number.
LtZero(v) == v.t \in {"int", "float"} /\ v.n < 0

\* val > 1 for a float.
GtOne(v) == (v.t = "float" /\ v.n > 10) \/ v.t = "inf"

\* TRUE when the validator raises ValueError.
validate_percent(v) == v # PyNone /\ (LtZero(v) \/ GtOne(v))

validate_positive(v) == v # PyNone /\ LtZero(v)

\* A converter, by name.
Convert(conv, v) ==
    CASE conv = "int" -> int(v)
      [] conv = "int_or_none" -> convert_int_or_none(v)
      [] conv = "float_or_none" -> convert_float_or_none(v)

\* A validator, by name.
Invalid(validator, v) ==
    CASE validator = "positive" -> validate_positive(v)
      [] validator = "percent" -> validate_percent(v)

Min(S) == CHOOSE x \in S : \A y \in S : x <= y

\* The values the converters of attrs give for the arguments args, in
\* attribute order.
Converted(attrs, args) ==
    [i \in 1..Len(attrs) |-> Convert(attrs[i].conv, args[attrs[i].a])]

\* The first exception of the converters, else the ValueError of a validator,
\* else the fields of the instance.
Validated(attrs, conv) ==
    [e |-> IF \E i \in 1..Len(attrs) : conv[i].e # ""
           THEN conv[Min({i \in 1..Len(attrs) : conv[i].e # ""})].e
           ELSE IF \E i \in 1..Len(attrs) : Invalid(attrs[i].val, conv[i].v)
                THEN "ValueError" ELSE "",
     f |-> [a \in {attrs[i].a : i \in 1..Len(attrs)} |->
              conv[CHOOSE j \in 1..Len(attrs) : attrs[j].a = a].v]]

(***************************************************************************)
(* The __init__ attrs generates: the converters run in attribute order,    *)
(* then the validators.  attrs is a sequence of [a, conv, val]; args maps  *)
(* each attribute name to the value passed.                                *)
(***************************************************************************)
AttrsInit(attrs, args) == Validated(attrs, Converted(attrs, args))

-----------------------------------------------------------------------------
\* Records.  Every record built by the streaming path holds a reference to
\* the one ResticSnapshotKeys object passed to get_piped_stats: its key is
\* the variable key, read when the record is looked at.

ResticBackupStatus ==
    << [a |-> "files_total",       conv |-> "int",           val |-> "positive"],
       [a |-> "bytes_total",       conv |-> "int",           val |-> "positive"],
       [a |-> "percent_done",      conv |-> "float_or_none", val |-> "percent"],
       [a |-> "files_done",        conv |-> "int_or_none",   val |-> "positive"],
       [a |-> "bytes_done",        conv |-> "int_or_none",   val |-> "positive"],
       [a |-> "seconds_elapsed",   conv |-> "int_or_none",   val |-> "positive"],
       [a |-> "seconds_remaining", conv |-> "int_or_none",   val |-> "positive"] >>

ResticBackupSummary ==
    << [a |-> "files_new",        conv |-> "int", val |-> "positive"],
       [a |-> "files_changed",    conv |-> "int", val |-> "positive"],
       [a |-> "files_unmodified", conv |-> "int", val |-> "positive"],
       [a |-> "dirs_new",         conv |-> "int", val |-> "positive"],
       [a |-> "dirs_changed",     conv |-> "int", val |-> "positive"],
       [a |-> "dirs_unmodified",  conv |-> "int", val |-> "positive"],
       [a |-> "data_added",       conv |-> "int", val |-> "positive"],
       [a |-> "files_processed",  conv |-> "int", val |-> "positive"],
       [a |-> "bytes_processed",  conv |-> "int", val |-> "positive"],
       [a |-> "duration",         conv |-> "int", val |-> "positive"] >>

\* An element of a returned list: a record, or None.
Record(type, fields) == [type |-> type, f |-> fields]
NoneElement == [type |-> "None", f |-> << >>]

\* What a decoder does: return a record, return None, or raise.
Decoded(rec) == [out |-> "record", exc |-> "", rec |-> rec]
DecodedNone == [out |-> "None", exc |-> "", rec |-> NoneElement]
DecodeRaises(exc) == [out |-> "raise", exc |-> exc, rec |-> NoneElement]

\* The except clauses of the decoders: KeyError and ValueError are logged
\* and the decoder returns None; any other exception leaves the decoder.
Caught(type, made) ==
    CASE made.e = "" -> Decoded(Record(type, made.f))
      [] made.e \in {"KeyError", "ValueError"} -> DecodedNone
      [] OTHER -> DecodeRaises(made.e)

\* A constructor called outside any try block.
Uncaught(type, made) ==
    IF made.e = "" THEN Decoded(Record(type, made.f)) ELSE DecodeRaises(made.e)

\* dict.get(k)
Get(obj, k) == IF k \in DOMAIN obj THEN obj[k] ELSE PyNone

StatusRequiredKeys == {"total_files", "total_bytes"}

json_to_backup_status(status_json) ==
    IF DOMAIN status_json = {} THEN DecodedNone
    ELSE IF ~(StatusRequiredKeys \subseteq DOMAIN status_json) THEN DecodedNone
    ELSE Caught("ResticBackupStatus", AttrsInit(ResticBackupStatus,
            [files_total       |-> status_json["total_files"],
             bytes_total       |-> status_json["total_bytes"],
             percent_done      |-> Get(status_json, "percent_done"),
             files_done        |-> Get(status_json, "files_done"),
             bytes_done        |-> Get(status_json, "bytes_done"),
             seconds_elapsed   |-> Get(status_json, "seconds_elapsed"),
             seconds_remaining |-> Get(status_json, "seconds_remaining")]))

SummaryRequiredKeys ==
    {"files_new", "files_changed", "files_unmodified", "dirs_new",
     "dirs_changed", "dirs_unmodified", "data_added", "total_files_processed",
     "total_bytes_processed", "total_duration"}

\* The key after json_to_backup_summary: "key.snapshot_id = summary_json[...]"
\* is the first statement of the try block, and attrs runs neither converter
\* nor validator on assignment.
KeyAfterSummary(summary_json, k) ==
    IF DOMAIN summary_json # {} /\ "snapshot_id" \in DOMAIN summary_json
    THEN [k EXCEPT !.snapshot_id = summary_json["snapshot_id"]]
    ELSE k

json_to_backup_summary(summary_json) ==
    IF DOMAIN summary_json = {} THEN DecodedNone
    ELSE IF "snapshot_id" \notin DOMAIN summary_json THEN DecodedNone
    ELSE IF ~(SummaryRequiredKeys \subseteq DOMAIN summary_json) THEN DecodedNone
    ELSE Caught("ResticBackupSummary", AttrsInit(ResticBackupSummary,
            [files_new        |-> summary_json["files_new"],
             files_changed    |-> summary_json["files_changed"],
             files_unmodified |-> summary_json["files_unmodified"],
             dirs_new         |-> summary_json["dirs_new"],
             dirs_changed     |-> summary_json["dirs_changed"],
             dirs_unmodified  |-> summary_json["dirs_unmodified"],
             data_added       |-> summary_json["data_added"],
             files_processed  |-> summary_json["total_files_processed"],
             bytes_processed  |-> summary_json["total_bytes_processed"],
             duration         |-> summary_json["total_duration"]]))

\* The terminal status with bytes_done taken from the file count.
generate_last_status_from_summary_FilesForBytes(summary) ==
    Uncaught("ResticBackupStatus", AttrsInit(ResticBackupStatus,
        [files_total       |-> summary.f.files_processed,
         bytes_total       |-> summary.f.bytes_processed,
         percent_done      |-> PyFloat(10),
         files_done        |-> summary.f.files_processed,
         bytes_done        |-> summary.f.files_processed,
         seconds_elapsed   |-> summary.f.duration,
         seconds_remaining |-> PyNone]))

\* ResticStatsGenerator._generate_last_status_from_summary: the constructor
\* is called outside any try block, so whatever it raises leaves the method.
generate_last_status_from_summary(summary) ==
    Uncaught("ResticBackupStatus", AttrsInit(ResticBackupStatus,
        [files_total       |-> summary.f.files_processed,
         bytes_total       |-> summary.f.bytes_processed,
         percent_done      |-> PyFloat(10),
         files_done        |-> summary.f.files_processed,
         bytes_done        |-> summary.f.bytes_processed,
         seconds_elapsed   |-> summary.f.duration,
         seconds_remaining |-> PyNone]))

-----------------------------------------------------------------------------
\* Input lines.  A line is the text handed to json.loads, kept as what it
\* parses to: kind "garbage" is text that is not JSON, "scalar" a JSON
\* number, true, false or null, "str" and "list" a JSON string or list (has
\* says whether "message_type" occurs in it), "object" a JSON object obj.

EmptyObj == [x \in {} |-> PyNone]

Garbage == [kind |-> "garbage", has |-> FALSE, obj |-> EmptyObj]
NonObject(kind, has) == [kind |-> kind, has |-> has, obj |-> EmptyObj]
Object(obj) == [kind |-> "object", has |-> "message_type" \in DOMAIN obj, obj |-> obj]

Without(obj, k) == [x \in DOMAIN obj \ {k} |-> obj[x]]
With(obj, k, v) == [x \in DOMAIN obj \cup {k} |-> IF x = k THEN v ELSE obj[x]]

\* The status message of the tests (tests/__init__.py), with small numbers.
BaseStatus ==
    [message_type |-> PyStr("status"), percent_done |-> PyFloat(5),
     total_files |-> PyInt(9), files_done |-> PyInt(2),
     total_bytes |-> PyInt(14), bytes_done |-> PyInt(3)]

\* The summary message of the tests, with small numbers.
BaseSummary(sid) ==
    [message_type |-> PyStr("summary"), files_new |-> PyInt(1),
     files_changed |-> PyInt(4), files_unmodified |-> PyInt(7),
     dirs_new |-> PyInt(2), dirs_changed |-> PyInt(0),
     dirs_unmodified |-> PyInt(1), data_added |-> PyInt(14),
     total_files_processed |-> PyInt(12), total_bytes_processed |-> PyInt(16),
     total_duration |-> PyFloat(45), snapshot_id |-> sid]

\* Values a field of a line is replaced by.
FieldValues ==
    {PyInt(0), PyInt(-1), PyFloat(-5), PyFloat(25), PyStr("7"), PyStr("garbage"),
     PyNone, PyInf, PyNaN}

SnapshotIds == {PyStr("a34dda71"), PyStr("")}

\* The status fields that are varied: a required counter and the percentage.
StatusVariedKeys == {"total_files", "percent_done"}

\* The summary fields that are varied: a counter and the duration.
SummaryVariedKeys == {"files_new", "total_duration"}

MessageTypes == {PyStr("error"), PyNone}

StatusLines ==
    {Object(BaseStatus)}
    \cup {Object(Without(BaseStatus, k)) :
            k \in {"total_files", "total_bytes", "percent_done"}}
    \cup {Object(With(BaseStatus, k, v)) : k \in StatusVariedKeys, v \in FieldValues}

SummaryLines ==
    {Object(BaseSummary(sid)) : sid \in SnapshotIds}
    \cup {Object(Without(BaseSummary(sid), k)) :
            sid \in {PyStr("b2")}, k \in {"files_new", "snapshot_id"}}
    \cup {Object(With(BaseSummary(PyStr("b2")), k, v)) :
            k \in SummaryVariedKeys, v \in FieldValues}

OtherLines ==
    {Garbage, NonObject("scalar", FALSE), NonObject("str", FALSE),
     NonObject("str", TRUE), NonObject("list", FALSE), NonObject("list", TRUE),
     Object(EmptyObj), Object(Without(BaseStatus, "message_type"))}
    \cup {Object(With(BaseStatus, "message_type", v)) : v \in MessageTypes}

Lines == StatusLines \cup SummaryLines \cup OtherLines

-----------------------------------------------------------------------------
\* ResticStatsGenerator.get_piped_stats

\* What a call does: return a list, return None, or raise; and the key and
\* the last-update timestamp it leaves behind.
Return(val, k, last) == [ret |-> "list", exc |-> "", val |-> val, key |-> k, last |-> last]
ReturnNone(k, last) == [ret |-> "None", exc |-> "", val |-> << >>, key |-> k, last |-> last]
Raises(exc, k, last) == [ret |-> "raise", exc |-> exc, val |-> << >>, key |-> k, last |-> last]

\* The rate-limit check with the window left out of the comparison.
WithinWindow_NoWindow(last, window, t) ==
    /\ last # PyNone
    /\ window > 0
    /\ t < last.n

\* The rate-limit check with <= for <.
WithinWindow_Inclusive(last, window, t) ==
    /\ last # PyNone
    /\ window > 0
    /\ t <= last.n + window

\* The rate-limit check without the test that turns it off for window 0.
WithinWindow_ZeroIsWindow(last, window, t) ==
    /\ last # PyNone
    /\ t < last.n + window

\* The condition of the rate-limit check; datetimes are counted in seconds.
WithinWindow(last, window, t) ==
    /\ last # PyNone
    /\ window > 0
    /\ t < last.n + window

\* The end of the status branch, with the timestamp set only when the
\* decoding gave a record.
StatusReturn_StampOnRecord(status, k, last, t) ==
    IF status.out = "raise" THEN Raises(status.exc, k, last)
    ELSE Return(<<status.rec>>, k, IF status.out = "record" THEN PyInt(t) ELSE last)

\* The end of the status branch with the timestamp never set.
StatusReturn_NoStamp(status, k, last, t) ==
    IF status.out = "raise" THEN Raises(status.exc, k, last)
    ELSE Return(<<status.rec>>, k, last)

\* "self._backup_status_last_update = now" and
\* "return [json_to_backup_status(data, key)]": status is what the decoder
\* did, last the timestamp before the call.
StatusReturn(status, k, last, t) ==
    IF status.out = "raise" THEN Raises(status.exc, k, PyInt(t))
    ELSE Return(<<status.rec>>, k, PyInt(t))

\* The status branch with the timestamp set after the decoding.
StatusBranch_StampOnRecord(data, k, last, window, t) ==
    IF WithinWindow(last, window, t) THEN Return(<< >>, k, last)
    ELSE StatusReturn_StampOnRecord(json_to_backup_status(data), k, last, t)

\* The status branch with the timestamp set before the rate-limit check.
StatusBranch_StampWhenSuppressed(data, k, last, window, t) ==
    IF WithinWindow(last, window, t) THEN Return(<< >>, k, PyInt(t))
    ELSE StatusReturn(json_to_backup_status(data), k, last, t)

\* The branch taken for message_type "status".
StatusBranch(data, k, last, window, t) ==
    IF WithinWindow(last, window, t) THEN Return(<< >>, k, last)
    ELSE StatusReturn(json_to_backup_status(data), k, last, t)

\* The returned list with the two records in the other order.
SummaryReturn_Swapped(status, summary, k, last) ==
    IF status.out = "raise" THEN Raises(status.exc, k, last)
    ELSE Return(<<summary, status.rec>>, k, last)

\* "return [self._generate_last_status_from_summary(summary), summary]"
SummaryReturn(status, summary, k, last) ==
    IF status.out = "raise" THEN Raises(status.exc, k, last)
    ELSE Return(<<status.rec, summary>>, k, last)

\* What follows "summary = json_to_backup_summary(data, key)": summary is
\* what the decoder did, k the key it left.
AfterSummary(summary, k, last) ==
    CASE summary.out = "raise" -> Raises(summary.exc, k, last)
      [] summary.out = "None" -> Return(<< >>, k, last)
      [] OTHER -> SummaryReturn(generate_last_status_from_summary(summary.rec),
                                summary.rec, k, last)

\* The branch taken for message_type "summary".
SummaryBranch(data, k, last) ==
    AfterSummary(json_to_backup_summary(data), KeyAfterSummary(data, k), last)

\* get_piped_stats without the try block around json.loads.
get_piped_stats_GarbageRaises(line, k, last, window, t) ==
    CASE line.kind = "garbage" -> Raises("ValueError", k, last)
      [] line.kind = "scalar" -> Raises("TypeError", k, last)
      [] ~line.has -> Return(<< >>, k, last)
      [] line.kind \in {"str", "list"} -> Raises("TypeError", k, last)
      [] line.obj["message_type"] = PyStr("status") ->
            StatusBranch(line.obj, k, last, window, t)
      [] line.obj["message_type"] = PyStr("summary") ->
            SummaryBranch(line.obj, k, last)
      [] OTHER -> ReturnNone(k, last)

get_piped_stats(line, k, last, window, t) ==
    CASE line.kind = "garbage" -> Return(<< >>, k, last)
      [] line.kind = "scalar" -> Raises("TypeError", k, last)
      [] ~line.has -> Return(<< >>, k, last)
      [] line.kind \in {"str", "list"} -> Raises("TypeError", k, last)
      [] line.obj["message_type"] = PyStr("status") ->
            StatusBranch(line.obj, k, last, window, t)
      [] line.obj["message_type"] = PyStr("summary") ->
            SummaryBranch(line.obj, k, last)
      [] OTHER -> ReturnNone(k, last)

-----------------------------------------------------------------------------
\* The batch path: the records and decoders of "restic stats" and "restic
\* snapshots".  The value json.loads gives is [kind, has, obj] as for a line;
\* the listing has its groups besides.

ResticStats ==
    << [a |-> "total_size",       conv |-> "int",         val |-> "positive"],
       [a |-> "total_file_count", conv |-> "int",         val |-> "positive"],
       [a |-> "total_blob_count", conv |-> "int_or_none", val |-> "positive"] >>

\* What _run_command returns for a failed command, and json.loads for "null".
NoJson == NonObject("None", FALSE)

\* "if not stats_json": None and the empty dict.
Falsy(json) == json.kind = "None" \/ (json.kind = "object" /\ DOMAIN json.obj = {})

StatsRequiredKeys == {"total_size", "total_file_count"}

json_to_stats(stats_json) ==
    IF Falsy(stats_json) THEN DecodedNone
    ELSE IF ~(StatsRequiredKeys \subseteq DOMAIN stats_json.obj) THEN DecodedNone
    ELSE Caught("ResticStats", AttrsInit(ResticStats,
            [total_size       |-> stats_json.obj["total_size"],
             total_file_count |-> stats_json.obj["total_file_count"],
             total_blob_count |-> Get(stats_json.obj, "total_blob_count")]))

\* ResticStatsBundle(raw, restore): both validators are instance_of(ResticStats).
ResticStatsBundle(raw, restore) ==
    IF raw.out = "record" /\ restore.out = "record"
    THEN [e |-> "", f |-> [raw |-> raw.rec, restore |-> restore.rec]]
    ELSE [e |-> "TypeError", f |-> [raw |-> raw.rec, restore |-> restore.rec]]

\* The builtin str(), for the strings and integers of the model.
str(v) == IF v.t = "str" THEN v ELSE PyStr(ToString(v.n))

convert_str_or_none(v) == IF v # PyNone THEN str(v) ELSE v

\* TRUE when the validator raises ValueError.
validate_non_empty_str(v) == v = PyStr("")

\* ResticSnapshotKeys(hostname, paths, tags, snapshot_id): the converter of
\* snapshot_id, then the validators in attribute order.
ResticSnapshotKeys(hostname, paths, tags, snapshot_id) ==
    [e |-> CASE hostname.t # "str" -> "TypeError"
             [] validate_non_empty_str(hostname) -> "ValueError"
             [] paths.t \notin {"None", "list"} -> "TypeError"
             [] tags.t \notin {"None", "list"} -> "TypeError"
             [] validate_non_empty_str(convert_str_or_none(snapshot_id)) -> "ValueError"
             [] OTHER -> "",
     f |-> [hostname |-> hostname, paths |-> paths, tags |-> tags,
            snapshot_id |-> convert_str_or_none(snapshot_id)]]

\* dateutil_parser.parse(snapshot_time) succeeds: the argument is a string
\* that holds a date.
Parses(v) == v.t = "str" /\ v.s = "2020-12-28T21:28:23"

\* ResticSnapshot(key, snapshot_time), built inside "try ... except KeyError":
\* a TypeError or ValueError of the key's validators leaves the decoder.
ResticSnapshot(made_key, snapshot_time) ==
    IF made_key.e # "" THEN DecodeRaises(made_key.e)
    ELSE Decoded(Record("ResticSnapshot",
            [key |-> made_key.f, snapshot_time |-> snapshot_time, stats |-> PyNone]))

SnapshotRequiredKeys == {"hostname", "paths", "id"}

\* The handler of an unparseable time formats a message with restic_time, a
\* name that is not defined: NameError.
json_to_snapshot(snapshot_json) ==
    CASE Falsy(snapshot_json) -> DecodedNone
      [] "time" \notin DOMAIN snapshot_json.obj -> DecodedNone
      [] ~Parses(snapshot_json.obj["time"]) -> DecodeRaises("NameError")
      [] ~(SnapshotRequiredKeys \subseteq DOMAIN snapshot_json.obj) -> DecodedNone
      [] OTHER ->
            ResticSnapshot(
                ResticSnapshotKeys(snapshot_json.obj["hostname"],
                                   snapshot_json.obj["paths"],
                                   Get(snapshot_json.obj, "tags"),
                                   snapshot_json.obj["id"]),
                snapshot_json.obj["time"])

\* types.py: ResticSnapshotKeys, whose paths validator is instance_of(list).
types_ResticSnapshotKeys(hostname, paths, tags, snapshot_id) ==
    [e |-> CASE hostname.t # "str" -> "TypeError"
             [] validate_non_empty_str(hostname) -> "ValueError"
             [] paths.t # "list" -> "TypeError"
             [] tags.t \notin {"None", "list"} -> "TypeError"
             [] validate_non_empty_str(convert_str_or_none(snapshot_id)) -> "ValueError"
             [] OTHER -> "",
     f |-> [hostname |-> hostname, paths |-> paths, tags |-> tags,
            snapshot_id |-> convert_str_or_none(snapshot_id)]]

types_SnapshotRequiredKeys == {"hostname", "paths", "short_id"}

\* types.py: json_to_snapshot.  An unparsable time is logged and None is
\* returned; the snapshot id is read from "short_id".
types_json_to_snapshot(snapshot_json) ==
    CASE Falsy(snapshot_json) -> DecodedNone
      [] "time" \notin DOMAIN snapshot_json.obj -> DecodedNone
      [] ~Parses(snapshot_json.obj["time"]) -> DecodedNone
      [] ~(types_SnapshotRequiredKeys \subseteq DOMAIN snapshot_json.obj) -> DecodedNone
      [] OTHER ->
            ResticSnapshot(
                types_ResticSnapshotKeys(snapshot_json.obj["hostname"],
                                         snapshot_json.obj["paths"],
                                         Get(snapshot_json.obj, "tags"),
                                         snapshot_json.obj["short_id"]),
                snapshot_json.obj["time"])

-----------------------------------------------------------------------------
\* ResticExecutor.  A command is one subprocess.run; out is what the
\* subprocess gave: its exit code and its stdout, as json.loads reads it.

Output(rc, stdout) == [rc |-> rc, stdout |-> stdout]

\* The arguments after [path_binary, "--json"].
StatsArgs(mode, snapshot_ids) ==
    [command |-> "stats", mode |-> mode, snapshot_ids |-> snapshot_ids,
     group_by |-> "", last |-> FALSE]

SnapshotsArgs(group_by, last) ==
    [command |-> "snapshots", mode |-> "", snapshot_ids |-> << >>,
     group_by |-> group_by, last |-> last]

\* _run_command that parses stdout whatever the exit code.
run_command_IgnoresExitCode(args, out) ==
    [args |-> args, out |-> out,
     ret |-> IF out.stdout.kind = "garbage" THEN NoJson ELSE out.stdout]

\* ResticExecutor._run_command: the invocation and what the method returns.
run_command(args, out) ==
    [args |-> args, out |-> out,
     ret |-> IF out.rc # 0 THEN NoJson
             ELSE IF out.stdout.kind = "garbage" THEN NoJson
             ELSE out.stdout]

\* "json_to_stats(self._run_command(...))"
StatsOf(run) == [run |-> run, stats |-> json_to_stats(run.ret)]

\* ResticExecutor.get_stats
get_stats(mode, snapshot_ids, out) == StatsOf(run_command(StatsArgs(mode, snapshot_ids), out))

\* "for grouped_snapshot in result or []: for snapshot in
\* grouped_snapshot.get(KEY_SNAPSHOTS) or []": the entries, in listing order.
RECURSIVE Entries(_)
Entries(groups) ==
    IF groups = << >> THEN << >>
    ELSE (IF Head(groups).has THEN Head(groups).snapshots ELSE << >>)
         \o Entries(Tail(groups))

ListedEntries(json) == IF json.kind = "list" THEN Entries(json.groups) ELSE << >>

\* "snapshots += [json_to_snapshot(snapshot)] or []": a one-element list is
\* never empty, so every decoder result is appended, None included.
Collected(decoded) == decoded

\* The loop of get_snapshots over the decoder results: the first exception
\* leaves the method, else the list is returned, with a warning when empty.
SnapshotsOf(run, decoded) ==
    [run |-> run,
     exc |-> IF \E i \in 1..Len(decoded) : decoded[i].out = "raise"
             THEN decoded[Min({i \in 1..Len(decoded) : decoded[i].out = "raise"})].exc
             ELSE "",
     val |-> [i \in 1..Len(Collected(decoded)) |-> Collected(decoded)[i].rec],
     warned |-> Collected(decoded) = << >>]

Decode(entries) == [i \in 1..Len(entries) |-> json_to_snapshot(entries[i])]

\* ResticExecutor.get_snapshots
get_snapshots(group_by, last, out) ==
    \* the run, then the entries of what it returned, decoded one by one
    SnapshotsOf(run_command(SnapshotsArgs(group_by, last), out),
                Decode(ListedEntries(run_command(SnapshotsArgs(group_by, last), out).ret)))

-----------------------------------------------------------------------------------------------------------------------------------------------------
\* The words of the claims.

HasType(line, type) ==
    /\ line.kind = "object"
    /\ "message_type" \in DOMAIN line.obj
    /\ line.obj["message_type"] = PyStr(type)

IsStatusLine(line) == HasType(line, "status")

IsSummaryLine(line) == HasType(line, "summary")

\* The rate-limit check lets a status line through: there is no last-emit
\* timestamp, the window is off, or the clock reads at least window seconds
\* after the timestamp.
PassesCheck(last, window, t) ==
    last = PyNone \/ window <= 0 \/ t >= last.n + window

\* A JSON number that is not negative, and one in [0, 1].
NonNegative(v) == v.t \in {"int", "float"} /\ v.n >= 0
Percent(v) == (v.t = "int" /\ v.n \in {0, 1}) \/ (v.t = "float" /\ v.n \in 0..10)

\* The integer and the float (in tenths) a JSON number stands for.
AsInt(v) == IF v.t = "int" THEN v.n ELSE Trunc(v.n)
AsTenths(v) == IF v.t = "int" THEN 10 * v.n ELSE v.n

StatusCounters == {"files_done", "bytes_done", "seconds_elapsed", "seconds_remaining"}

\* A status line whose required fields are non-negative numbers and whose
\* optional fields are absent or in range.
WellFormedStatus(line) ==
    /\ IsStatusLine(line)
    /\ \A k \in StatusRequiredKeys : k \in DOMAIN line.obj /\ NonNegative(line.obj[k])
    /\ \A k \in StatusCounters : k \in DOMAIN line.obj => NonNegative(line.obj[k])
    /\ "percent_done" \in DOMAIN line.obj => Percent(line.obj["percent_done"])

\* A summary line whose required fields are all present, the counters and
\* the duration non-negative numbers and the snapshot id a non-empty string.
ValidSummary(line) ==
    /\ IsSummaryLine(line)
    /\ \A k \in SummaryRequiredKeys : k \in DOMAIN line.obj /\ NonNegative(line.obj[k])
    /\ "snapshot_id" \in DOMAIN line.obj
    /\ line.obj["snapshot_id"].t = "str" /\ line.obj["snapshot_id"].s # ""

-----------------------------------------------------------------------------
\* The state machine.

NoCall ==
    [made |-> FALSE, line |-> Garbage, now |-> 0, last |-> PyNone,
     key_sid |-> PyNone, undecoded_at |-> PyNone, emitted_at |-> PyNone]

NoResult == [ret |-> "", exc |-> "", val |-> << >>]

\* No export call has been made.
NoExport ==
    [made |-> FALSE, stats |-> << >>, started |-> FALSE, exc |-> "",
     calls |-> << >>, warned |-> << >>]

\* No exporter object is looked at.
SinkOff ==
    /\ client = FALSE
    /\ sink = NoExport

\* The __main__ block is not run: the generator is called directly.
MainOff ==
    /\ argv = [backup_host |-> PyNone, backup_path |-> FALSE, exporters |-> 1]
    /\ stdin = << >>
    /\ main_pc = "off"
    /\ exit_status = PyNone
    /\ usage = FALSE
    /\ passed = << >>
    /\ returned = << >>
    /\ exported = << >>
    /\ written = << >>

\* The batch path is not taken: stdin is a pipe.
BatchOff ==
    /\ pc = "off"
    /\ generator_last = TRUE
    /\ runs = << >>
    /\ commands = 0
    /\ snapshots = << >>
    /\ cursor = 0
    /\ warned = FALSE
    /\ batch_result = NoResult

Init ==
    /\ key = [hostname |-> "hostname", paths |-> <<"path1">>, tags |-> << >>,
              snapshot_id |-> PyNone]
    /\ backup_status_last_update = PyNone
    /\ backup_status_window_seconds \in {0, MaxWindow}
    /\ now = 0
    /\ result = NoResult
    /\ call = NoCall
    /\ undecoded_at = PyNone
    /\ summary_sid = PyNone
    /\ emitted_at = PyNone
    /\ BatchOff
    /\ SinkOff
    /\ MainOff

\* One call of get_piped_stats(line, key) by the main loop or a test.
GetPipedStats(line) ==
    \E r \in {get_piped_stats(line, key, backup_status_last_update,
                              backup_status_window_seconds, now)} :
        /\ key' = r.key
        /\ backup_status_last_update' = r.last
        /\ result' = [ret |-> r.ret, exc |-> r.exc, val |-> r.val]
        /\ call' = [made |-> TRUE, line |-> line, now |-> now,
                    last |-> backup_status_last_update,
                    key_sid |-> key.snapshot_id,
                    undecoded_at |-> undecoded_at,
                    emitted_at |-> emitted_at]
        /\ undecoded_at' =
              IF /\ IsStatusLine(line)
                 /\ PassesCheck(backup_status_last_update,
                                backup_status_window_seconds, now)
                 /\ ~(r.ret = "list" /\ r.val # << >>
                      /\ r.val[1].type = "ResticBackupStatus")
              THEN PyInt(now) ELSE PyNone
        /\ summary_sid' =
              IF r.ret = "list" /\ Len(r.val) = 2 THEN r.key.snapshot_id
              ELSE summary_sid
        /\ emitted_at' =
              IF /\ IsStatusLine(line)
                 /\ r.ret = "list" /\ Len(r.val) = 1
                 /\ r.val[1].type = "ResticBackupStatus"
              THEN PyInt(now) ELSE emitted_at
        /\ UNCHANGED <<backup_status_window_seconds, now>>
        /\ UNCHANGED <<batch_vars, sink_vars, main_vars>>

\* The wall clock moves forward between two calls.
Tick ==
    /\ \E t \in (now + 1)..MaxTime : now' = t
    /\ call' = NoCall
    /\ result' = NoResult
    /\ UNCHANGED <<key, backup_status_last_update, backup_status_window_seconds,
                   undecoded_at, summary_sid, emitted_at>>
    /\ UNCHANGED <<batch_vars, sink_vars, main_vars>>

\* datetime.now() is the local wall clock: it can be set back.
ClockSetBack ==
    /\ \E t \in 0..(now - 1) : now' = t
    /\ call' = NoCall
    /\ result' = NoResult
    /\ emitted_at' = PyNone
    /\ UNCHANGED <<key, backup_status_last_update, backup_status_window_seconds,
                   undecoded_at, summary_sid>>
    /\ UNCHANGED <<batch_vars, sink_vars, main_vars>>

Next ==
    \/ \E line \in Lines : GetPipedStats(line)
    \/ Tick
    \/ ClockSetBack

Spec == Init /\ [][Next]_vars

-----------------------------------------------------------------------------
\* What the subprocess can give the batch path.

\* The stats message of the tests (tests/__init__.py), with small numbers, and
\* one of restore-size mode, which has no blob count.
BaseStats ==
    [total_size |-> PyInt(17), total_file_count |-> PyInt(1),
     total_blob_count |-> PyInt(4)]

RestoreStats == [total_size |-> PyInt(12), total_file_count |-> PyInt(1)]

StatsOutputs ==
    {Output(1, Garbage), Output(1, Object(BaseStats)), Output(0, Garbage),
     Output(0, NoJson), Output(0, Object(BaseStats)), Output(0, Object(RestoreStats)),
     Output(0, Object(Without(BaseStats, "total_size"))),
     Output(0, Object(With(BaseStats, "total_size", PyNone)))}

\* The snapshot of the tests.
BaseSnapshot(id) ==
    [time |-> PyStr("2020-12-28T21:28:23"), paths |-> PyList(1),
     hostname |-> PyStr("hostname"), id |-> PyStr(id), short_id |-> PyStr("12")]

SnapshotEntries ==
    {Object(BaseSnapshot("1234")), Object(BaseSnapshot("5678")), Object(EmptyObj),
     Object(Without(BaseSnapshot("1234"), "time")),
     Object(Without(BaseSnapshot("1234"), "hostname")),
     Object(With(BaseSnapshot("1234"), "time", PyStr("garbage"))),
     Object(With(BaseSnapshot("1234"), "hostname", PyStr(""))),
     Object(With(BaseSnapshot("1234"), "hostname", PyInt(0))),
     Object(With(BaseSnapshot("1234"), "paths", PyStr("/path"))),
     Object(With(BaseSnapshot("1234"), "id", PyStr("")))}

\* A listing is a JSON list of groups; a group is a dict that has a list
\* under "snapshots", or lacks the key.
Listing(groups) ==
    [kind |-> "list", has |-> FALSE, obj |-> EmptyObj, groups |-> groups]

Group(entries) == [has |-> TRUE, snapshots |-> entries]

NoSnapshotsGroup == [has |-> FALSE, snapshots |-> << >>]

EntrySeqs == UNION {[1..n -> SnapshotEntries] : n \in 0..MaxSnapshots}

\* Up to MaxSnapshots entries, split over two groups at every place.
Listings ==
    {Listing(<< >>), Listing(<<NoSnapshotsGroup>>)}
    \cup UNION {{Listing(<<Group(SubSeq(es, 1, cut)),
                           Group(SubSeq(es, cut + 1, Len(es)))>>) :
                    cut \in 0..Len(es)} : es \in EntrySeqs}

ListingOutputs ==
    {Output(1, Garbage), Output(0, Garbage), Output(0, NoJson),
     Output(1, Listing(<<Group(<<Object(BaseSnapshot("1234"))>>)>>))}
    \cup {Output(0, l) : l \in Listings}

Modes == {"raw-data", "restore-size"}

\* What a repository-wide stats call can give: the outputs above, and the
\* stats message with one numeric field replaced.
StatsFieldValues == {PyInt(0), PyInt(-1), PyFloat(-5), PyFloat(-15), PyStr("garbage")}

RepoStatsOutputs ==
    StatsOutputs
    \cup {Output(0, Object(With(BaseStats, k, v))) :
            k \in DOMAIN BaseStats, v \in StatsFieldValues}

-----------------------------------------------------------------------------
\* The batch path of the program: ResticStatsGenerator.get_snapshot_stats,
\* one step for each round of subprocess calls, and _get_repo_stats.

InitBatch ==
    /\ key = [hostname |-> "hostname", paths |-> <<"path1">>, tags |-> << >>,
              snapshot_id |-> PyNone]
    /\ backup_status_last_update = PyNone
    /\ backup_status_window_seconds = MaxWindow
    /\ now = 0
    /\ result = NoResult
    /\ call = NoCall
    /\ undecoded_at = PyNone
    /\ summary_sid = PyNone
    /\ emitted_at = PyNone
    /\ pc = "start"
    /\ generator_last \in BOOLEAN
    /\ runs = << >>
    /\ commands = 0
    /\ snapshots = << >>
    /\ cursor = 0
    /\ warned = FALSE
    /\ batch_result = NoResult
    /\ SinkOff
    /\ MainOff

\* An exception leaves the batch method.
BatchRaises(exc) ==
    /\ pc' = "raised"
    /\ batch_result' = [ret |-> "raise", exc |-> exc, val |-> << >>]

\* "snapshots = self._executor.get_snapshots(group_by=..., last=...)"
GetSnapshots(out) ==
    /\ pc = "start"
    /\ \E r \in {get_snapshots("host,path", generator_last, out)} :
          /\ runs' = Append(runs, r.run)
          /\ commands' = commands + 1
          /\ IF r.exc # ""
             THEN /\ BatchRaises(r.exc)
                  /\ UNCHANGED <<snapshots, warned>>
             ELSE /\ pc' = "loop"
                  /\ snapshots' = r.val
                  /\ warned' = r.warned
                  /\ UNCHANGED batch_result
    /\ UNCHANGED <<generator_last, cursor>>
    /\ UNCHANGED <<piped_vars, sink_vars, main_vars>>

\* "snapshot.stats = ResticStatsBundle(raw=..., restore=...)" once both
\* get_stats calls have returned.
AttachBundle(raw, restore) ==
    \E bundle \in {ResticStatsBundle(raw.stats, restore.stats)} :
        IF bundle.e # ""
        THEN /\ BatchRaises(bundle.e)
             /\ UNCHANGED <<snapshots, cursor>>
        ELSE /\ snapshots' = [snapshots EXCEPT ![cursor + 1].f.stats = bundle.f]
             /\ cursor' = cursor + 1
             /\ UNCHANGED <<pc, batch_result>>

\* One iteration of "for snapshot in snapshots": the two stats calls of the
\* snapshot, raw-data first, and the bundle.
SnapshotStats(raw_out, restore_out) ==
    /\ pc = "loop"
    /\ cursor < Len(snapshots)
    /\ IF snapshots[cursor + 1].type = "None"
       THEN \* snapshot.key of None
            /\ BatchRaises("AttributeError")
            /\ UNCHANGED <<runs, commands, snapshots, cursor>>
       ELSE \E raw \in {get_stats("raw-data",
                                  <<snapshots[cursor + 1].f.key.snapshot_id>>, raw_out)},
               restore \in {get_stats("restore-size",
                                  <<snapshots[cursor + 1].f.key.snapshot_id>>, restore_out)} :
                IF raw.stats.out = "raise"
                THEN /\ runs' = Append(runs, raw.run)
                     /\ commands' = commands + 1
                     /\ BatchRaises(raw.stats.exc)
                     /\ UNCHANGED <<snapshots, cursor>>
                ELSE /\ runs' = runs \o <<raw.run, restore.run>>
                     /\ commands' = commands + 2
                     /\ IF restore.stats.out = "raise"
                        THEN /\ BatchRaises(restore.stats.exc)
                             /\ UNCHANGED <<snapshots, cursor>>
                        ELSE AttachBundle(raw, restore)
    /\ UNCHANGED <<generator_last, warned>>
    /\ UNCHANGED <<piped_vars, sink_vars, main_vars>>

\* "return snapshots"
ReturnSnapshots ==
    /\ pc = "loop"
    /\ cursor = Len(snapshots)
    /\ pc' = "done"
    /\ batch_result' = [ret |-> "list", exc |-> "", val |-> snapshots]
    /\ UNCHANGED <<generator_last, runs, commands, snapshots, cursor, warned>>
    /\ UNCHANGED <<piped_vars, sink_vars, main_vars>>

\* ResticStatsGenerator._get_repo_stats(mode)
GetRepoStats(mode, out) ==
    /\ pc = "start"
    /\ \E r \in {get_stats(mode, << >>, out)} :
          /\ runs' = Append(runs, r.run)
          /\ commands' = commands + 1
          /\ IF r.stats.out = "raise"
             THEN BatchRaises(r.stats.exc)
             ELSE /\ pc' = "done"
                  /\ batch_result' = [ret |-> "stats", exc |-> "", val |-> <<r.stats.rec>>]
    /\ UNCHANGED <<generator_last, snapshots, cursor, warned>>
    /\ UNCHANGED <<piped_vars, sink_vars, main_vars>>

\* types.json_to_snapshot(entry), called on its own as the tests call it.
JsonToSnapshot(entry) ==
    /\ pc = "start"
    /\ \E r \in {types_json_to_snapshot(entry)} :
          /\ pc' = IF r.out = "raise" THEN "raised" ELSE "done"
          /\ batch_result' =
                [ret |-> IF r.out = "raise" THEN "raise" ELSE "snapshot",
                 exc |-> r.exc, val |-> <<r.rec>>, arg |-> entry]
    /\ UNCHANGED <<generator_last, runs, commands, snapshots, cursor, warned>>
    /\ UNCHANGED <<piped_vars, sink_vars, main_vars>>

NextBatch ==
    \/ \E out \in ListingOutputs : GetSnapshots(out)
    \/ \E raw_out \in StatsOutputs, restore_out \in StatsOutputs :
          SnapshotStats(raw_out, restore_out)
    \/ ReturnSnapshots
    \/ \E mode \in Modes, out \in RepoStatsOutputs : GetRepoStats(mode, out)
    \/ \E entry \in SnapshotEntries : JsonToSnapshot(entry)

SpecBatch == InitBatch /\ [][NextBatch]_vars

-----------------------------------------------------------------------------
\* exporters.py: ExporterInfluxDB.  A point is the dict given to
\* write_points; the values of its fields are the values of the record.

\* dict.update(e)
Update(d, e) ==
    [x \in DOMAIN d \cup DOMAIN e |-> IF x \in DOMAIN e THEN e[x] ELSE d[x]]

\* ",".join(list)
RECURSIVE join(_)
join(list) ==
    CASE list = << >> -> ""
      [] Len(list) = 1 -> list[1]
      [] OTHER -> list[1] \o "," \o join(Tail(list))

\* restic_exporter.get_current_datetime(), read when the clock shows t.
get_current_datetime(t) == PyInt(t)

\* _submit_points(points): one write_points call when the client is set.
submit_points(points, started) == IF started THEN <<points>> ELSE << >>

\* _add_optional_fields(optional_fields)
add_optional_fields(optional_fields) ==
    [x \in {k \in DOMAIN optional_fields : optional_fields[k] # PyNone} |->
        optional_fields[x]]

\* _get_fields_from_stats_bundle(stats_bundle)
get_fields_from_stats_bundle(stats_bundle) ==
    Update(
        IF stats_bundle.raw # NoneElement
        THEN Update([raw_size |-> stats_bundle.raw.f.total_size,
                     raw_file_count |-> stats_bundle.raw.f.total_file_count],
                    add_optional_fields(
                        [raw_blob_count |-> stats_bundle.raw.f.total_blob_count]))
        ELSE EmptyObj,
        IF stats_bundle.restore # NoneElement
        THEN Update([restore_size |-> stats_bundle.restore.f.total_size,
                     restore_file_count |-> stats_bundle.restore.f.total_file_count],
                    add_optional_fields(
                        [restore_blob_count |-> stats_bundle.restore.f.total_blob_count]))
        ELSE EmptyObj)

\* _get_influx_tags_from_key(key)
get_influx_tags_from_key(k) ==
    IF k.tags # << >>
    THEN [hostname |-> k.hostname, paths |-> join(k.paths), tags |-> join(k.tags)]
    ELSE [hostname |-> k.hostname, paths |-> join(k.paths)]

\* _export_snapshot(snapshot)
export_snapshot(snapshot) ==
    << [measurement |-> "restic_snapshots",
        tags |-> get_influx_tags_from_key(snapshot.f.key),
        time |-> snapshot.f.snapshot_time,
        fields |-> Update([short_id |-> snapshot.f.key.snapshot_id],
                          get_fields_from_stats_bundle(snapshot.f.stats))] >>

\* _export_backup_status(stats): k is the key object the record holds.
export_backup_status(stats, k, t) ==
    << [measurement |-> "restic_backup_status",
        tags |-> get_influx_tags_from_key(k),
        time |-> get_current_datetime(t),
        fields |->
            Update([total_files |-> stats.f.files_total,
                    total_bytes |-> stats.f.bytes_total],
                   add_optional_fields(
                       [percent_done      |-> stats.f.percent_done,
                        files_done        |-> stats.f.files_done,
                        bytes_done        |-> stats.f.bytes_done,
                        seconds_elapsed   |-> stats.f.seconds_elapsed,
                        seconds_remaining |-> stats.f.seconds_elapsed]))] >>

\* _export_backup_summary(stats): k is the key object the record holds.
export_backup_summary(stats, k, t) ==
    << [measurement |-> "restic_backup_summary",
        tags |-> get_influx_tags_from_key(k),
        time |-> get_current_datetime(t),
        fields |->
            [files_new             |-> stats.f.files_new,
             files_changed         |-> stats.f.files_changed,
             files_unmodified      |-> stats.f.files_unmodified,
             dirs_new              |-> stats.f.dirs_new,
             dirs_changed          |-> stats.f.dirs_changed,
             dirs_unmodified       |-> stats.f.dirs_unmodified,
             data_added            |-> stats.f.data_added,
             data_blobs            |-> stats.f.data_blobs,
             snapshot_id           |-> k.snapshot_id,
             total_files_processed |-> stats.f.files_processed,
             total_bytes_processed |-> stats.f.bytes_processed,
             total_duration        |-> stats.f.duration,
             tree_blobs            |-> stats.f.tree_blobs]] >>

\* const.MEASUREMENT_REPO_STATS
MEASUREMENT_REPO_STATS == "restic_repo_stats"

\* _export_repo(repo)
export_repo(repo, t) ==
    IF get_fields_from_stats_bundle(repo.f.stats) = EmptyObj THEN << >>
    ELSE << [measurement |-> MEASUREMENT_REPO_STATS,
             time |-> get_current_datetime(t),
             fields |-> get_fields_from_stats_bundle(repo.f.stats)] >>

\* The isinstance chain of export: the points of one element.
PointsOf(stat, k, t) ==
    CASE stat.type = "ResticBackupStatus" -> export_backup_status(stat, k, t)
      [] stat.type = "ResticBackupSummary" -> export_backup_summary(stat, k, t)
      [] stat.type = "ResticSnapshot" -> export_snapshot(stat)
      [] stat.type = "ResticRepoStats" -> export_repo(stat, t)
      [] OTHER -> << >>

\* The else branch of the chain: the element is logged.
Unhandled(stat) ==
    stat.type \notin {"ResticBackupStatus", "ResticBackupSummary",
                      "ResticSnapshot", "ResticRepoStats"}

\* "for stat in stats: ... points.extend(...)"
RECURSIVE Points(_, _, _)
Points(stats, k, t) ==
    IF stats = << >> THEN << >>
    ELSE PointsOf(Head(stats), k, t) \o Points(Tail(stats), k, t)

\* export with an else branch that raises instead of logging.
export_RaisesOnUnknown(stats, k, t, started) ==
    IF \E i \in 1..Len(stats) : Unhandled(stats[i])
    THEN [made |-> TRUE, stats |-> stats, started |-> started, exc |-> "TypeError",
          calls |-> << >>, warned |-> << >>]
    ELSE [made |-> TRUE, stats |-> stats, started |-> started, exc |-> "",
          calls |-> submit_points(Points(stats, k, t), started), warned |-> << >>]

\* ExporterInfluxDB.export(stats)
export(stats, k, t, started) ==
    [made |-> TRUE, stats |-> stats, started |-> started, exc |-> "",
     calls |-> submit_points(Points(stats, k, t), started),
     warned |-> SelectSeq(stats, Unhandled)]

\* The records the sink is given.  The status records are decoded from the
\* status message of the tests, with and without its optional fields.
SinkStatusObjects ==
    {BaseStatus,
     With(BaseStatus, "seconds_elapsed", PyInt(7)),
     With(Without(Without(Without(BaseStatus, "percent_done"), "files_done"),
                  "bytes_done"),
          "seconds_remaining", PyInt(9))}

\* ResticBackupSummary with its blob counts, as exporters_test.py builds it.
SinkSummary ==
    Record("ResticBackupSummary",
           Update(json_to_backup_summary(BaseSummary(PyStr("a34dda71"))).rec.f,
                  [data_blobs |-> PyInt(8), tree_blobs |-> PyInt(2)]))

SinkBundle ==
    [raw |-> json_to_stats(Object(BaseStats)).rec,
     restore |-> json_to_stats(Object(RestoreStats)).rec]

SinkSnapshot ==
    Record("ResticSnapshot",
           [key |-> [hostname |-> "hostname", paths |-> <<"path1", "path2">>,
                     tags |-> <<"tag1">>, snapshot_id |-> PyStr("12")],
            snapshot_time |-> PyStr("2020-12-28T21:28:23"),
            stats |-> SinkBundle])

\* ResticRepoStats(stats=...), as exporters_test.py builds it.
ResticRepoStats(stats_bundle) == Record("ResticRepoStats", [stats |-> stats_bundle])

\* "this_is_not_an_expected_type"
NotAnExpectedType == [type |-> "str", f |-> << >>]

SinkElements ==
    {json_to_backup_status(o).rec : o \in SinkStatusObjects}
    \cup {SinkSummary, SinkSnapshot, ResticRepoStats(SinkBundle),
          NotAnExpectedType, NoneElement}

SinkBatches == UNION {[1..n -> SinkElements] : n \in 0..MaxBatch}

\* The keys the status and summary records hold: without and with tags.
SinkKeys ==
    {[hostname |-> "hostname", paths |-> <<"path1">>, tags |-> << >>,
      snapshot_id |-> PyStr("a34dda71")],
     [hostname |-> "hostname", paths |-> <<"path1", "path2">>,
      tags |-> <<"tag1", "tag2">>, snapshot_id |-> PyStr("a34dda71")]}

\* An exporter that was constructed and not yet started.
InitSink ==
    /\ key \in SinkKeys
    /\ backup_status_last_update = PyNone
    /\ backup_status_window_seconds = MaxWindow
    /\ now = 0
    /\ result = NoResult
    /\ call = NoCall
    /\ undecoded_at = PyNone
    /\ summary_sid = PyNone
    /\ emitted_at = PyNone
    /\ BatchOff
    /\ SinkOff
    /\ MainOff

\* ExporterInfluxDB.start()
Start ==
    /\ ~client
    /\ client' = TRUE
    /\ UNCHANGED <<sink, piped_vars, batch_vars, main_vars>>

\* ExporterInfluxDB.export(stats)
Export(stats) ==
    /\ sink' = export(stats, key, now, client)
    /\ UNCHANGED <<client, piped_vars, batch_vars, main_vars>>

NextSink ==
    \/ Start
    \/ \E stats \in SinkBatches : Export(stats)

SpecSink == InitSink /\ [][NextSink]_vars

-----------------------------------------------------------------------------
\* restic_exporter.py: the __main__ block when standard input is a pipe.

\* "exporters", nargs="+": one exporter or more.
ExporterCounts == {1, 2}

\* The command lines: --backup-host and --backup-path given or not.
CommandLines ==
    [backup_host : {PyNone, PyStr("hostname")}, backup_path : BOOLEAN,
     exporters : ExporterCounts]

\* Lines restic writes: a status, a status without total_files, a status with
\* a null total_files, two summaries (whole, without files_new), other text,
\* a JSON number, and a message of another type.
MainLines ==
    {Object(BaseStatus),
     Object(Without(BaseStatus, "total_files")),
     Object(With(BaseStatus, "total_files", PyNone)),
     Object(BaseSummary(PyStr("a34dda71"))),
     Object(Without(BaseSummary(PyStr("b2")), "files_new")),
     Garbage,
     NonObject("scalar", FALSE),
     Object(With(BaseStatus, "message_type", PyStr("error")))}

MainStreams == UNION {[1..n -> MainLines] : n \in 0..MaxLines}

\* The program is started with a command line and a pipe to read.
InitMain ==
    /\ key = [hostname |-> "", paths |-> << >>, tags |-> << >>, snapshot_id |-> PyNone]
    /\ backup_status_last_update = PyNone
    /\ backup_status_window_seconds \in {0, MaxWindow}
    /\ now = 0
    /\ result = NoResult
    /\ call = NoCall
    /\ undecoded_at = PyNone
    /\ summary_sid = PyNone
    /\ emitted_at = PyNone
    /\ BatchOff
    /\ SinkOff
    /\ argv \in CommandLines
    /\ stdin \in MainStreams
    /\ main_pc = "start"
    /\ exit_status = PyNone
    /\ usage = FALSE
    /\ passed = << >>
    /\ returned = << >>
    /\ exported = << >>
    /\ written = << >>

\* ap.parse_args(), then the exporters and the generator are constructed.
\* --backup-path is required=True: without it argparse prints the usage and
\* exits with status 2.
ParseArgs ==
    /\ main_pc = "start"
    /\ IF ~argv.backup_path
       THEN /\ main_pc' = "exited"
            /\ usage' = TRUE
            /\ exit_status' = PyInt(2)
            /\ UNCHANGED <<exported, written>>
       ELSE /\ main_pc' = "parsed"
            /\ exported' = [e \in 1..argv.exporters |-> << >>]
            /\ written' = [e \in 1..argv.exporters |-> 0]
            /\ UNCHANGED <<usage, exit_status>>
    /\ UNCHANGED <<argv, stdin, passed, returned>>
    /\ UNCHANGED <<piped_vars, batch_vars, sink_vars>>

\* get_snapshot_key_from_args(ap, args): without --backup-host the error is
\* logged, the usage is printed and ap.exit() ends the process with its
\* default status, 0.
GetSnapshotKeyFromArgs ==
    /\ main_pc = "parsed"
    /\ IF argv.backup_host = PyNone
       THEN /\ main_pc' = "exited"
            /\ usage' = TRUE
            /\ exit_status' = PyInt(0)
            /\ UNCHANGED key
       ELSE /\ main_pc' = "loop"
            /\ key' = [hostname |-> argv.backup_host.s, paths |-> <<"path1">>,
                       tags |-> << >>, snapshot_id |-> PyNone]
            /\ UNCHANGED <<usage, exit_status>>
    /\ UNCHANGED <<argv, stdin, passed, returned, exported, written>>
    /\ UNCHANGED <<backup_status_last_update, backup_status_window_seconds, now,
                   result, call, undecoded_at, summary_sid, emitted_at>>
    /\ UNCHANGED <<batch_vars, sink_vars>>

\* restic_exporter.py ExporterInfluxDB.export(stats): one point is submitted
\* for a status, a summary or a snapshot, anything else is logged.
SubmitsPoint(stat) ==
    stat.type \in {"ResticBackupStatus", "ResticBackupSummary", "ResticSnapshot"}

\* The loops over the exporters with "break" after the first exporter.
ExportLoop_FirstOnly(stats, seqs) ==
    [e \in DOMAIN seqs |-> IF e = 1 THEN seqs[e] \o stats ELSE seqs[e]]

\* "for exporter in exporters: for stat in stats: exporter.export(stat)":
\* what each exporter has been passed so far.
ExportLoop(stats, seqs) == [e \in DOMAIN seqs |-> seqs[e] \o stats]

\* One iteration of "for line in sys.stdin": the line goes to
\* get_piped_stats, which reads the clock at t, and what it returns goes to
\* every exporter.  A call that raises, and the loop over a returned None
\* (TypeError), end the process with a traceback.
ReadLine(t) ==
    /\ main_pc = "loop"
    /\ Len(passed) < Len(stdin)
    /\ now' = t
    /\ passed' = Append(passed, stdin[Len(passed) + 1])
    /\ \E r \in {get_piped_stats(stdin[Len(passed) + 1], key,
                                 backup_status_last_update,
                                 backup_status_window_seconds, t)} :
          /\ key' = r.key
          /\ backup_status_last_update' = r.last
          /\ result' = [ret |-> r.ret, exc |-> r.exc, val |-> r.val]
          /\ IF r.ret = "list"
             THEN /\ returned' = returned \o r.val
                  /\ exported' = ExportLoop(r.val, exported)
                  /\ written' = [e \in DOMAIN written |->
                                    written[e] + Len(SelectSeq(r.val, SubmitsPoint))]
                  /\ UNCHANGED <<main_pc, exit_status>>
             ELSE /\ main_pc' = "crashed"
                  /\ exit_status' = PyInt(1)
                  /\ UNCHANGED <<returned, exported, written>>
    /\ UNCHANGED <<argv, stdin, usage>>
    /\ UNCHANGED <<backup_status_window_seconds, call, undecoded_at, summary_sid,
                   emitted_at>>
    /\ UNCHANGED <<batch_vars, sink_vars>>

\* The iterator over sys.stdin is exhausted: the program ends.
EndOfStream ==
    /\ main_pc = "loop"
    /\ Len(passed) = Len(stdin)
    /\ main_pc' = "done"
    /\ exit_status' = PyInt(0)
    /\ UNCHANGED <<argv, stdin, usage, passed, returned, exported, written>>
    /\ UNCHANGED <<piped_vars, batch_vars, sink_vars>>

NextMain ==
    \/ ParseArgs
    \/ GetSnapshotKeyFromArgs
    \/ \E t \in now..MaxTime : ReadLine(t)
    \/ EndOfStream

SpecMain == InitMain /\ [][NextMain]_vars

-----------------------------------------------------------------------------
\* Properties.  A state with call.made is the state a call has just returned
\* in: call holds the line and the state the call started in, result what it
\* gave back.

Returned == call.made

ReturnedEmpty == result.ret = "list" /\ result.val = << >>

\* The value an optional field of a line gives a record.
Optional(obj, k) == IF k \in DOMAIN obj THEN PyInt(AsInt(obj[k])) ELSE PyNone

\* C1: with a window W > 0, a status line passed while the clock reads less
\* than W seconds after the last-emit timestamp is suppressed: the call
\* returns an empty sequence.
C1_SuppressedWithinWindow ==
    ( /\ Returned
      /\ IsStatusLine(call.line)
      /\ backup_status_window_seconds > 0
      /\ call.last # PyNone
      /\ call.now < call.last.n + backup_status_window_seconds )
    => ReturnedEmpty

\* A well-formed status line arrives after the timestamp but within the
\* window, and nothing comes back.
C1_Witness ==
    /\ Returned
    /\ WellFormedStatus(call.line)
    /\ backup_status_window_seconds > 0
    /\ call.last # PyNone
    /\ call.now > call.last.n
    /\ call.now < call.last.n + backup_status_window_seconds
    /\ ReturnedEmpty

\* C2: with a window W > 0, a well-formed status line passed when there is no
\* last-emit timestamp, or when the clock reads at least W seconds after it,
\* is not suppressed: the call returns exactly one BackupStatus decoded from
\* the line and sets the last-emit timestamp to the clock reading.
C2_EmittedOutsideWindow ==
    ( /\ Returned
      /\ WellFormedStatus(call.line)
      /\ backup_status_window_seconds > 0
      /\ \/ call.last = PyNone
         \/ call.now >= call.last.n + backup_status_window_seconds )
    => /\ result.ret = "list"
       /\ Len(result.val) = 1
       /\ result.val[1].type = "ResticBackupStatus"
       /\ result.val[1].f.files_total = PyInt(AsInt(call.line.obj["total_files"]))
       /\ result.val[1].f.bytes_total = PyInt(AsInt(call.line.obj["total_bytes"]))
       /\ result.val[1].f.percent_done =
             IF "percent_done" \in DOMAIN call.line.obj
             THEN PyFloat(AsTenths(call.line.obj["percent_done"])) ELSE PyNone
       /\ \A k \in StatusCounters : result.val[1].f[k] = Optional(call.line.obj, k)
       /\ backup_status_last_update = PyInt(call.now)

\* A status line arrives exactly W seconds after the timestamp and is emitted.
C2_Witness ==
    /\ Returned
    /\ WellFormedStatus(call.line)
    /\ backup_status_window_seconds > 0
    /\ call.last # PyNone
    /\ call.now = call.last.n + backup_status_window_seconds
    /\ result.ret = "list" /\ Len(result.val) = 1
    /\ result.val[1].type = "ResticBackupStatus"
    /\ backup_status_last_update = PyInt(call.now)

\* C3: a summary line with all required fields valid makes the call return
\* exactly two records, the terminal BackupStatus first and the BackupSummary
\* second, whatever the last-emit timestamp and the window are.
C3_SummaryGivesTwoRecords ==
    (Returned /\ ValidSummary(call.line))
    => /\ result.ret = "list"
       /\ Len(result.val) = 2
       /\ result.val[1].type = "ResticBackupStatus"
       /\ result.val[2].type = "ResticBackupSummary"

\* A valid summary arrives inside the window a status line would be
\* suppressed in, and both records come back.
C3_Witness ==
    /\ Returned
    /\ ValidSummary(call.line)
    /\ backup_status_window_seconds > 0
    /\ call.last # PyNone
    /\ call.now < call.last.n + backup_status_window_seconds
    /\ result.ret = "list" /\ Len(result.val) = 2
    /\ result.val[1].type = "ResticBackupStatus"
    /\ result.val[2].type = "ResticBackupSummary"

\* C4: the terminal BackupStatus made from a BackupSummary has percent_done
\* 1.0, files_total = files_done = the summary's files processed, bytes_total
\* = bytes_done = its bytes processed, seconds_elapsed = its duration cut to
\* an integer and no seconds_remaining; whenever the decoder gives a summary,
\* the status is built and returned with it (both hold the shared key).
C4_TerminalStatusOfSummary ==
    ( /\ Returned
      /\ IsSummaryLine(call.line)
      /\ json_to_backup_summary(call.line.obj).out = "record" )
    => /\ result.ret = "list"
       /\ Len(result.val) = 2
       /\ result.val[2] = json_to_backup_summary(call.line.obj).rec
       /\ LET status == result.val[1].f
              summary == result.val[2].f
          IN  /\ result.val[1].type = "ResticBackupStatus"
              /\ status.percent_done = PyFloat(10)
              /\ status.files_total = summary.files_processed
              /\ status.files_done = summary.files_processed
              /\ status.bytes_total = summary.bytes_processed
              /\ status.bytes_done = summary.bytes_processed
              /\ status.seconds_elapsed = PyInt(AsInt(summary.duration))
              /\ status.seconds_remaining = PyNone
              /\ NonNegative(call.line.obj["total_duration"]) =>
                    status.seconds_elapsed =
                        PyInt(AsInt(call.line.obj["total_duration"]))

\* A summary with a duration of 4.5 seconds gives a terminal status with
\* seconds_elapsed 4.
C4_Witness ==
    /\ Returned
    /\ ValidSummary(call.line)
    /\ call.line.obj["total_duration"] = PyFloat(45)
    /\ result.ret = "list" /\ Len(result.val) = 2
    /\ result.val[1].f.seconds_elapsed = PyInt(4)
    /\ result.val[1].f.percent_done = PyFloat(10)
    /\ result.val[1].f.files_done = PyInt(12)
    /\ result.val[1].f.bytes_done = PyInt(16)

\* C5: after a summary line is decoded, the shared key's snapshot_id is the
\* summary's snapshot id, and the records of later calls carry it, until
\* another summary replaces it.
C5_KeyHoldsSummarySnapshotId ==
    summary_sid # PyNone => key.snapshot_id = summary_sid

\* C6: a summary line that misses a required field makes the call return an
\* empty sequence and leaves the shared key, its snapshot_id included, and
\* the last-emit timestamp as they were.
C6_BrokenSummaryChangesNothing ==
    ( /\ Returned
      /\ IsSummaryLine(call.line)
      /\ ~(SummaryRequiredKeys \cup {"snapshot_id"} \subseteq DOMAIN call.line.obj) )
    => /\ ReturnedEmpty
       /\ key.snapshot_id = call.key_sid
       /\ backup_status_last_update = call.last

\* C7: a status line that passes the rate-limit check and that the decoder
\* gives no record for (a required field is missing or a value is invalid)
\* makes the call return an empty sequence: no element at all.
C7_UndecodedStatusGivesEmpty ==
    ( /\ Returned
      /\ IsStatusLine(call.line)
      /\ PassesCheck(call.last, backup_status_window_seconds, call.now)
      /\ json_to_backup_status(call.line.obj).out = "None" )
    => ReturnedEmpty

C9_NeverRaises ==
    Returned => result.ret # "raise"

\* The invariants of the data model, for a record of a returned list.
RecordInvariants(rec) ==
    /\ rec.type \in {"ResticBackupStatus", "ResticBackupSummary"}
    /\ \A a \in DOMAIN rec.f :
          IF a = "percent_done"
          THEN rec.f[a] = PyNone \/ (rec.f[a].t = "float" /\ rec.f[a].n \in 0..10)
          ELSE rec.f[a] = PyNone \/ (rec.f[a].t = "int" /\ rec.f[a].n >= 0)
    /\ key.hostname # ""
    /\ key.snapshot_id = PyNone
       \/ (key.snapshot_id.t = "str" /\ key.snapshot_id.s # "")

\* C10: every element of every returned sequence is a constructed record that
\* satisfies the invariants of the data model: non-negative fields >= 0,
\* percent_done in [0, 1] when present, a non-empty hostname and, when
\* present, a non-empty snapshot_id.
C10_ReturnedRecordsAreValid ==
    (Returned /\ result.ret = "list")
    => \A i \in 1..Len(result.val) : RecordInvariants(result.val[i])

C12_UnrecognizedTypeGivesEmpty ==
    ( /\ Returned
      /\ call.line.kind = "object"
      /\ ~IsStatusLine(call.line)
      /\ ~IsSummaryLine(call.line) )
    => ReturnedEmpty

\* C13: with the window set to 0 no status line is suppressed, whatever the
\* clock reads and whatever came before: the line reaches the decoder (the
\* timestamp is set to the clock reading) and, if well formed, gives exactly
\* one BackupStatus.
C13_ZeroWindowNeverSuppresses ==
    ( /\ Returned
      /\ IsStatusLine(call.line)
      /\ backup_status_window_seconds = 0 )
    => /\ backup_status_last_update = PyInt(call.now)
       /\ ~ReturnedEmpty
       /\ WellFormedStatus(call.line)
             => /\ result.ret = "list"
                /\ Len(result.val) = 1
                /\ result.val[1].type = "ResticBackupStatus"

\* With window 0 a well-formed status line is emitted although the clock
\* reads less than the last-emit timestamp.
C13_Witness ==
    /\ Returned
    /\ WellFormedStatus(call.line)
    /\ backup_status_window_seconds = 0
    /\ call.last # PyNone
    /\ call.now < call.last.n
    /\ result.ret = "list"
    /\ Len(result.val) = 1
    /\ result.val[1].type = "ResticBackupStatus"

\* A status line has just given a BackupStatus record.
StatusEmitted ==
    /\ Returned
    /\ IsStatusLine(call.line)
    /\ result.ret = "list"
    /\ Len(result.val) = 1
    /\ result.val[1].type = "ResticBackupStatus"

\* C14: with a window W > 0 and a clock that has not gone backwards since the
\* previous BackupStatus was emitted from a status line, the next one is
\* emitted at a clock reading at least W seconds later.
C14_EmissionsSpacedByWindow ==
    ( /\ StatusEmitted
      /\ backup_status_window_seconds > 0
      /\ call.emitted_at # PyNone )
    => call.now >= call.emitted_at.n + backup_status_window_seconds

\* A second BackupStatus is emitted from a status line, the clock having only
\* moved forward since the first.
C14_Witness ==
    /\ StatusEmitted
    /\ backup_status_window_seconds > 0
    /\ call.emitted_at # PyNone
    /\ call.now >= call.emitted_at.n + backup_status_window_seconds

-----------------------------------------------------------------------------
\* Properties of the batch path.

\* get_snapshot_stats has ended: it returned or an exception left it.
SnapshotStatsEnded ==
    /\ pc \in {"done", "raised"}
    /\ runs # << >>
    /\ runs[1].args.command = "snapshots"

\* _get_repo_stats has ended.
RepoStatsEnded ==
    /\ pc \in {"done", "raised"}
    /\ runs # << >>
    /\ runs[1].args.command = "stats"

\* The two stats calls of the i-th snapshot are the runs 2i and 2i + 1: both
\* scoped to its id, raw-data mode first, restore-size mode second.
OwnStatsCalls(i) ==
    /\ runs[2 * i].args =
          StatsArgs("raw-data", <<snapshots[i].f.key.snapshot_id>>)
    /\ runs[2 * i + 1].args =
          StatsArgs("restore-size", <<snapshots[i].f.key.snapshot_id>>)

\* The bundle of the i-th snapshot holds what its own two calls returned.
OwnBundle(i) ==
    /\ snapshots[i].f.stats # PyNone
    /\ snapshots[i].f.stats.raw = json_to_stats(runs[2 * i].ret).rec
    /\ snapshots[i].f.stats.restore = json_to_stats(runs[2 * i + 1].ret).rec

\* C15: get_snapshot_stats makes one listing call and then, for each listed
\* snapshot in order, two stats calls scoped to its id, raw-data then
\* restore-size (1 + 2N calls); it returns the listed snapshots in order, each
\* with the bundle of its own two calls.
C15_OneListingThenTwoStatsEach ==
    SnapshotStatsEnded
    => /\ pc = "done"
       /\ batch_result.val = snapshots
       /\ Len(runs) = 1 + 2 * Len(snapshots)
       /\ \A i \in 1..Len(snapshots) :
             /\ snapshots[i].type = "ResticSnapshot"
             /\ OwnStatsCalls(i)
             /\ OwnBundle(i)

\* Every element of the list get_snapshots returned is a snapshot, and no
\* decoder of a stats call raised.
OnlyAbsenceWentWrong ==
    /\ \A i \in 1..Len(snapshots) : snapshots[i].type = "ResticSnapshot"
    /\ \A k \in 2..Len(runs) : json_to_stats(runs[k].ret).out # "raise"

\* C16: when a stats call made by get_snapshot_stats returns absence, no
\* exception is raised: the snapshot is returned with a bundle whose side is
\* absent, and the stats calls of the remaining snapshots are still made.
C16_AbsentStatsGiveAbsentSide ==
    ( /\ SnapshotStatsEnded
      /\ Len(runs) > 1
      /\ OnlyAbsenceWentWrong
      /\ \E k \in 2..Len(runs) : json_to_stats(runs[k].ret).out = "None" )
    => /\ pc = "done"
       /\ Len(runs) = 1 + 2 * Len(snapshots)
       /\ \A i \in 1..Len(snapshots) : OwnBundle(i)

\* The decoder results of the entries of the listing, in listing order.
DecodedEntries == Decode(ListedEntries(runs[1].ret))

\* C17: get_snapshots returns, in listing order, exactly the entries that
\* decode: an entry that does not is skipped, so no element is absent; a
\* warning is logged when the result is empty.
C17_SnapshotsAreTheDecodedEntries ==
    (pc = "loop" /\ cursor = 0)
    => /\ \A i \in 1..Len(snapshots) : snapshots[i].type = "ResticSnapshot"
       /\ snapshots =
             [i \in 1..Len(SelectSeq(DecodedEntries, LAMBDA d : d.out = "record")) |->
                SelectSeq(DecodedEntries, LAMBDA d : d.out = "record")[i].rec]
       /\ snapshots = << >> => warned

\* C18: get_repo_stats makes exactly two stats calls with no snapshot
\* scoping, raw-data first and restore-size second, and returns a one-element
\* sequence holding a RepoStats with the bundle of the two results.
C18_RepoStatsMakesTwoCalls ==
    RepoStatsEnded
    => /\ pc = "done"
       /\ Len(runs) = 2
       /\ runs[1].args = StatsArgs("raw-data", << >>)
       /\ runs[2].args = StatsArgs("restore-size", << >>)
       /\ batch_result.ret = "list"
       /\ Len(batch_result.val) = 1
       /\ batch_result.val[1].type = "ResticRepoStats"

\* The subprocess ended with exit code 0 and JSON on its stdout.
Succeeded(out) == out.rc = 0 /\ out.stdout.kind # "garbage"

\* C19: an executor command returns the parsed JSON body exactly when the
\* exit code is 0 and stdout is JSON; otherwise it returns absence, get_stats
\* then returns absence without raising, and every command is one
\* invocation of the subprocess.
C19_CommandReturnsBodyOrAbsence ==
    /\ Len(runs) = commands
    /\ \A k \in 1..Len(runs) :
          IF Succeeded(runs[k].out)
          THEN runs[k].ret = runs[k].out.stdout
          ELSE runs[k].ret = NoJson
    /\ (RepoStatsEnded /\ ~Succeeded(runs[1].out))
          => /\ pc = "done"
             /\ batch_result.val = <<NoneElement>>

\* A stats command whose subprocess failed with JSON on its stdout has
\* returned absence.
C19_Witness ==
    /\ RepoStatsEnded
    /\ runs[1].out.rc # 0
    /\ runs[1].out.stdout.kind = "object"
    /\ pc = "done"
    /\ batch_result.val = <<NoneElement>>

\* C20: a decoder returns absence rather than raising when a required key is
\* missing or a value fails coercion or validation: no stats output and no
\* listing entry that reached a decoder made it raise.
C20_DecodersNeverRaise ==
    /\ \A k \in 1..Len(runs) :
          runs[k].args.command = "stats" => json_to_stats(runs[k].ret).out # "raise"
    /\ runs # << >> /\ runs[1].args.command = "snapshots"
          => \A i \in 1..Len(DecodedEntries) : DecodedEntries[i].out # "raise"

\* A JSON number below zero.
Negative(v) == v.t \in {"int", "float"} /\ v.n < 0

\* The stats object given to a repository-wide stats call that has ended.
RepoStatsJson == runs[1].ret.obj

\* C21: for each numeric field of a stats object a negative value, integer or
\* fractional, makes the stats decoder return absence, and zero is accepted.
C21_NegativeStatsGiveAbsence ==
    ( /\ RepoStatsEnded
      /\ runs[1].ret.kind = "object"
      /\ DOMAIN RepoStatsJson = DOMAIN BaseStats )
    => /\ (\E k \in DOMAIN BaseStats : Negative(RepoStatsJson[k]))
             => /\ pc = "done"
                /\ batch_result.val = <<NoneElement>>
       /\ (\A k \in DOMAIN BaseStats : NonNegative(RepoStatsJson[k]))
             => /\ pc = "done"
                /\ batch_result.val[1].type = "ResticStats"

\* types.json_to_snapshot has been called on its own and has ended.
SnapshotDecoderEnded ==
    /\ pc \in {"done", "raised"}
    /\ runs = << >>

\* The time of a listing entry is there and is not a date.
UnparseableTime(entry) ==
    /\ "time" \in DOMAIN entry.obj
    /\ ~Parses(entry.obj["time"])

\* C22: the snapshot decoder, given a listing entry whose time cannot be
\* parsed, returns absence without raising: so does the decoder of the
\* executor for every such entry of a listing, and so does types.py's.
C22_UnparseableTimeGivesAbsence ==
    /\ (runs # << >> /\ runs[1].args.command = "snapshots")
          => \A i \in 1..Len(DecodedEntries) :
                UnparseableTime(ListedEntries(runs[1].ret)[i])
                   => DecodedEntries[i] = DecodedNone
    /\ (SnapshotDecoderEnded /\ UnparseableTime(batch_result.arg))
          => /\ pc = "done"
             /\ batch_result.val = <<NoneElement>>

\* C23: the key of a decoded snapshot takes its snapshot_id from the "id"
\* field of its listing entry, and the stats calls get_snapshot_stats has
\* made for it are scoped to that id.
C23_SnapshotIdIsTheEntryId ==
    /\ (pc \in {"loop", "done"} /\ runs # << >> /\ runs[1].args.command = "snapshots")
          => \A i \in 1..Len(snapshots) :
                snapshots[i].type = "ResticSnapshot"
                   => /\ snapshots[i].f.key.snapshot_id =
                            ListedEntries(runs[1].ret)[i].obj["id"]
                      /\ i <= cursor
                            => /\ runs[2 * i].args.snapshot_ids =
                                     <<ListedEntries(runs[1].ret)[i].obj["id"]>>
                               /\ runs[2 * i + 1].args.snapshot_ids =
                                     <<ListedEntries(runs[1].ret)[i].obj["id"]>>
    /\ (SnapshotDecoderEnded /\ pc = "done"
          /\ batch_result.val[1].type = "ResticSnapshot")
          => batch_result.val[1].f.key.snapshot_id = batch_result.arg.obj["id"]

\* C27: the last-emit timestamp changes only in a call whose line is a status
\* line that passes the rate-limit check; a suppressed status line, a summary
\* line (valid or not), a line that is not JSON and a line with a missing or
\* unrecognized message_type leave it as it was.
C27_TimestampChangesOnlyOnPassingStatus ==
    Returned =>
        /\ backup_status_last_update # call.last
              => /\ IsStatusLine(call.line)
                 /\ PassesCheck(call.last, backup_status_window_seconds, call.now)
                 /\ backup_status_last_update = PyInt(call.now)
        /\ ( \/ ~IsStatusLine(call.line)
             \/ ~PassesCheck(call.last, backup_status_window_seconds, call.now) )
              => backup_status_last_update = call.last

\* A status line was suppressed after an earlier one had set the timestamp at
\* another time, and the timestamp is still the earlier one.
C27_Witness ==
    /\ Returned
    /\ IsStatusLine(call.line)
    /\ call.last # PyNone
    /\ call.last # PyInt(call.now)
    /\ ~PassesCheck(call.last, backup_status_window_seconds, call.now)
    /\ ReturnedEmpty
    /\ backup_status_last_update = call.last

\* The snapshot_id read through a record that an earlier call returned:
\* "ResticBackupStatus(key=key, ...)" stores the caller's key object itself,
\* so it is the snapshot_id that object holds now.
snapshot_id_of_emitted == key.snapshot_id

\* C29: a record returned by one get_piped_stats call is not changed by any
\* later call: the BackupStatus emitted before this call has the key
\* snapshot_id it had when this call began.
C29_EmittedStatusKeepsSnapshotId ==
    (Returned /\ call.emitted_at # PyNone)
        => snapshot_id_of_emitted = call.key_sid

\* The points the sink submits for an element that is exported on its own.
Alone(stat) == export(<<stat>>, key, now, TRUE).calls[1]

RECURSIVE EachAlone(_)
EachAlone(stats) ==
    IF stats = << >> THEN << >> ELSE Alone(Head(stats)) \o EachAlone(Tail(stats))

HasUnhandled(stats) == \E i \in 1..Len(stats) : Unhandled(stats[i])

OptionalStatusFields ==
    {"percent_done", "files_done", "bytes_done", "seconds_elapsed", "seconds_remaining"}

\* C30: the point the sink builds for a BackupStatus carries, for each
\* optional field, the record's own value when the record has one, and has
\* no such field when the record has none.
C30_StatusPointCarriesOwnOptionalFields ==
    ( /\ sink.made
      /\ sink.started
      /\ Len(sink.stats) = 1
      /\ sink.stats[1].type = "ResticBackupStatus" )
    => \A o \in OptionalStatusFields :
          IF sink.stats[1].f[o] # PyNone
          THEN /\ o \in DOMAIN sink.calls[1][1].fields
               /\ sink.calls[1][1].fields[o] = sink.stats[1].f[o]
          ELSE o \notin DOMAIN sink.calls[1][1].fields

\* The command line lacks the backup host or the backup path.
ArgumentMissing == argv.backup_host = PyNone \/ ~argv.backup_path

\* C24: in streaming mode, when the backup host or the backup path argument
\* is missing, the program prints the usage and exits with a non-zero status,
\* and get_piped_stats is never called.
C24_MissingArgumentExitsNonZero ==
    /\ (ArgumentMissing /\ main_pc \notin {"off", "start", "parsed"})
          => /\ main_pc = "exited"
             /\ usage
             /\ exit_status \notin {PyNone, PyInt(0)}
    /\ (ArgumentMissing /\ main_pc # "off") => passed = << >>

\* C26: with a finite input the main loop passes every line to
\* get_piped_stats once, in order, and ends at the end of the stream: no line
\* ends the program early, whatever it yields.
C26_EveryLineIsPassedAndTheLoopEnds ==
    /\ main_pc \in {"loop", "done", "crashed"}
          => /\ Len(passed) <= Len(stdin)
             /\ passed = SubSeq(stdin, 1, Len(passed))
    /\ main_pc # "crashed"
    /\ main_pc = "done" => passed = stdin

\* C28: every configured sink has been passed, element by element, the
\* concatenation in input-line order of the lists get_piped_stats returned.
C28_EverySinkGetsAllReturnedRecords ==
    main_pc \in {"loop", "done", "crashed"}
        => /\ DOMAIN exported = 1..argv.exporters
           /\ \A e \in 1..argv.exporters : exported[e] = returned

\* Two sinks, a session of two lines that has ended, and three records or
\* more returned: a status, then the pair of a summary.
C28_Witness ==
    /\ main_pc = "done"
    /\ argv.exporters = 2
    /\ Len(passed) = 2
    /\ Len(returned) >= 3
    /\ returned[1].type = "ResticBackupStatus"
    /\ returned[3].type = "ResticBackupSummary"
    /\ exported[2] = returned

====
